---- MODULE Spec2Model ----
(***************************************************************************)
(* Sparse matrices of the repository sparse-Martrix: the two programs      *)
(*   src/code/sparse_matrix.py           (readFile / writeToFile, dense    *)
(*                                        multiply, unvalidated get/set)   *)
(*   src/integral-file/sparse_matrix.py  (load_from_file / save_to_file,   *)
(*                                        sparse multiply, validated       *)
(*                                        get/set)                         *)
(* Text is a sequence of one-character strings; a dict is a function whose *)
(* domain is its key set; the order in which a dict is iterated is an      *)
(* input of every loop over it.                                            *)
(***************************************************************************)
EXTENDS Integers, Sequences, FiniteSets, TLC

(***************************************************************************)
(* Bounds of the model.                                                    *)
(***************************************************************************)
\* largest row / column count of a matrix that is constructed or declared
MaxDim == 2
\* most entry lines of an input file
MaxLines == 2
\* most matrix objects alive at once
MaxObjs == 3
\* most stored entries of an operand drawn for the operator specifications
MaxNnz == 3
\* most getElement / setElement calls of a run
MaxAccess == 1

(***************************************************************************)
(* Python's str and int primitives, as the two programs use them.          *)
(***************************************************************************)
DigitChars == <<"0", "1", "2", "3", "4", "5", "6", "7", "8", "9">>

Digits == {DigitChars[i] : i \in 1..10}

Whitespace == {" ", "\t", "\n"}

DigitVal(ch) == (CHOOSE i \in 1..10 : DigitChars[i] = ch) - 1

RECURSIVE DecNat(_)
DecNat(n) == IF n < 10 THEN <<DigitChars[n + 1]>>
             ELSE DecNat(n \div 10) \o <<DigitChars[(n % 10) + 1]>>

\* str(n) of an int, as an f-string formats it
Dec(n) == IF n < 0 THEN <<"-">> \o DecNat(-n) ELSE DecNat(n)

RECURSIVE LStrip(_)
LStrip(s) == IF s # <<>> /\ Head(s) \in Whitespace THEN LStrip(Tail(s)) ELSE s

RECURSIVE RStrip(_)
RStrip(s) == IF s # <<>> /\ s[Len(s)] \in Whitespace
             THEN RStrip(SubSeq(s, 1, Len(s) - 1)) ELSE s

\* str.strip()
Strip(s) == RStrip(LStrip(s))

RECURSIVE LStripChar(_, _)
\* str.lstrip(ch)
LStripChar(s, ch) == IF s # <<>> /\ Head(s) = ch THEN LStripChar(Tail(s), ch) ELSE s

\* str.isdigit(): non-empty and every character a digit
IsDigit(s) == s # <<>> /\ \A i \in 1..Len(s) : s[i] \in Digits

StartsWith(s, ch) == s # <<>> /\ s[1] = ch

EndsWith(s, ch) == s # <<>> /\ s[Len(s)] = ch

RECURSIVE SplitFrom(_, _, _)
SplitFrom(s, sep, cur) ==
    IF s = <<>> THEN <<cur>>
    ELSE IF Head(s) = sep THEN <<cur>> \o SplitFrom(Tail(s), sep, <<>>)
    ELSE SplitFrom(Tail(s), sep, Append(cur, Head(s)))

\* str.split(sep): always at least one part
Split(s, sep) == SplitFrom(s, sep, <<>>)

RECURSIVE NatVal(_, _)
NatVal(s, acc) == IF s = <<>> THEN acc
                  ELSE NatVal(Tail(s), 10 * acc + DigitVal(Head(s)))

\* int(s): surrounding whitespace is ignored, one optional sign, then digits;
\* anything else raises ValueError (ok = FALSE)
ParseInt(s) ==
    LET t == Strip(s)
        signed == t # <<>> /\ Head(t) \in {"-", "+"}
        body == IF signed THEN Tail(t) ELSE t
    IN IF IsDigit(body)
       THEN [ok |-> TRUE,
             val |-> IF signed /\ Head(t) = "-" THEN -NatVal(body, 0)
                     ELSE NatVal(body, 0)]
       ELSE [ok |-> FALSE, val |-> 0]

\* iterating a text file: one line per "\n", the last one may lack it
FileLines(text) ==
    LET parts == Split(text, "\n")
    IN IF parts[Len(parts)] = <<>> THEN SubSeq(parts, 1, Len(parts) - 1) ELSE parts

RECURSIVE NonBlank(_)
\* [line.strip() for line in file if line.strip()]
NonBlank(ls) == IF ls = <<>> THEN <<>>
                ELSE IF Strip(Head(ls)) = <<>> THEN NonBlank(Tail(ls))
                ELSE <<Strip(Head(ls))>> \o NonBlank(Tail(ls))

(***************************************************************************)
(* dict: a function from its key set; keys are pairs <<row, col>>.         *)
(***************************************************************************)
EmptyDict == <<>>

\* d.get(k, default)
DictGet(d, k, default) == IF k \in DOMAIN d THEN d[k] ELSE default

\* d[k] = v
DictSet(d, k, v) == [x \in (DOMAIN d) \cup {k} |-> IF x = k THEN v ELSE d[x]]

\* del d[k]
DictDel(d, k) == [x \in (DOMAIN d) \ {k} |-> d[x]]

\* The heap: h.mats are the SparseMatrix objects (rows, cols and the index of
\* the dict that self.data refers to), h.dicts the dict objects.
EmptyHeap == [mats |-> <<>>, dicts |-> <<>>]

DataOf(h, self) == h.dicts[h.mats[self].data]

WithDict(h, d, new) == [h EXCEPT !.dicts[d] = new]

NoError == "none"

RECURSIVE Orders(_)
\* the orders in which a dict with key set S can be iterated
Orders(S) == IF S = {} THEN {<<>>}
             ELSE UNION {{<<k>> \o o : o \in Orders(S \ {k})} : k \in S}

(***************************************************************************)
(* src/code/sparse_matrix.py                                               *)
(***************************************************************************)
\* SparseMatrix(rows, cols): the new object is the last of the heap
Code_init(h, rows, cols) ==
    [mats |-> Append(h.mats, [rows |-> rows, cols |-> cols,
                              data |-> Len(h.dicts) + 1]),
     dicts |-> Append(h.dicts, EmptyDict)]

Code_getElement(h, self, row, col) == DictGet(DataOf(h, self), <<row, col>>, 0)

Code_setElement(h, self, row, col, value) ==
    LET d == h.mats[self].data
    IN IF value = 0
       THEN IF <<row, col>> \in DOMAIN h.dicts[d]
            THEN WithDict(h, d, DictDel(h.dicts[d], <<row, col>>))
            ELSE h
       ELSE WithDict(h, d, DictSet(h.dicts[d], <<row, col>>, value))

Code_addDimsOk(h, self, other) ==
    ~(h.mats[self].rows # h.mats[other].rows \/ h.mats[self].cols # h.mats[other].cols)

RECURSIVE Code_addSelfLoop(_, _, _, _, _)
\* for pos in self.data: result.setElement(..., self.data[pos] + other.getElement(...))
Code_addSelfLoop(h, self, other, result, order) ==
    IF order = <<>> THEN h
    ELSE LET pos == Head(order)
         IN Code_addSelfLoop(
                Code_setElement(h, result, pos[1], pos[2],
                    DataOf(h, self)[pos] + Code_getElement(h, other, pos[1], pos[2])),
                self, other, result, Tail(order))

RECURSIVE Code_addOtherLoop(_, _, _, _, _)
\* for pos in other.data: if pos not in self.data: result.setElement(..., other.data[pos])
Code_addOtherLoop(h, self, other, result, order) ==
    IF order = <<>> THEN h
    ELSE LET pos == Head(order)
         IN Code_addOtherLoop(
                IF pos \notin DOMAIN DataOf(h, self)
                THEN Code_setElement(h, result, pos[1], pos[2], DataOf(h, other)[pos])
                ELSE h,
                self, other, result, Tail(order))

\* self.add(other): its outcomes, one for each order in which the first loop
\* can iterate self.data and the second other.data
Code_add(h, self, other) ==
    IF ~Code_addDimsOk(h, self, other)
    THEN {[err |-> "ValueError", h |-> h, result |-> 0]}
    ELSE LET h1 == Code_init(h, h.mats[self].rows, h.mats[self].cols)
             result == Len(h1.mats)
             afterSelf == {Code_addSelfLoop(h1, self, other, result, order) :
                              order \in Orders(DOMAIN DataOf(h, self))}
             afterOther == UNION {{Code_addOtherLoop(h2, self, other, result, order) :
                                      order \in Orders(DOMAIN DataOf(h, other))} :
                                  h2 \in afterSelf}
         IN {[err |-> NoError, h |-> h3, result |-> result] : h3 \in afterOther}

RECURSIVE Code_subtractSelfLoop(_, _, _, _, _)
Code_subtractSelfLoop(h, self, other, result, order) ==
    IF order = <<>> THEN h
    ELSE LET pos == Head(order)
         IN Code_subtractSelfLoop(
                Code_setElement(h, result, pos[1], pos[2],
                    DataOf(h, self)[pos] - Code_getElement(h, other, pos[1], pos[2])),
                self, other, result, Tail(order))

RECURSIVE Code_subtractOtherLoop(_, _, _, _, _)
Code_subtractOtherLoop(h, self, other, result, order) ==
    IF order = <<>> THEN h
    ELSE LET pos == Head(order)
         IN Code_subtractOtherLoop(
                IF pos \notin DOMAIN DataOf(h, self)
                THEN Code_setElement(h, result, pos[1], pos[2], -DataOf(h, other)[pos])
                ELSE h,
                self, other, result, Tail(order))

\* self.subtract(other): its outcomes, one for each pair of iteration orders
Code_subtract(h, self, other) ==
    IF ~Code_addDimsOk(h, self, other)
    THEN {[err |-> "ValueError", h |-> h, result |-> 0]}
    ELSE LET h1 == Code_init(h, h.mats[self].rows, h.mats[self].cols)
             result == Len(h1.mats)
             afterSelf == {Code_subtractSelfLoop(h1, self, other, result, order) :
                              order \in Orders(DOMAIN DataOf(h, self))}
             afterOther == UNION {{Code_subtractOtherLoop(h2, self, other, result, order) :
                                      order \in Orders(DOMAIN DataOf(h, other))} :
                                  h2 \in afterSelf}
         IN {[err |-> NoError, h |-> h3, result |-> result] : h3 \in afterOther}

Code_multiplyDimsOk(h, self, other) == ~(h.mats[self].cols # h.mats[other].rows)

RECURSIVE Code_multiplyTotal(_, _, _, _, _, _)
\* total += self.getElement(i, k) * other.getElement(k, j) for k in range(k, self.cols)
Code_multiplyTotal(h, self, other, i, j, k) ==
    IF k >= h.mats[self].cols THEN 0
    ELSE Code_getElement(h, self, i, k) * Code_getElement(h, other, k, j)
         + Code_multiplyTotal(h, self, other, i, j, k + 1)

RECURSIVE Code_multiplyLoop(_, _, _, _, _, _)
\* the loops over i in range(self.rows) and j in range(other.cols), from (i, j) on
Code_multiplyLoop(h, self, other, result, i, j) ==
    IF i >= h.mats[self].rows THEN h
    ELSE IF j >= h.mats[other].cols
         THEN Code_multiplyLoop(h, self, other, result, i + 1, 0)
    ELSE LET total == Code_multiplyTotal(h, self, other, i, j, 0)
         IN Code_multiplyLoop(
                IF total # 0 THEN Code_setElement(h, result, i, j, total) ELSE h,
                self, other, result, i, j + 1)

Code_multiply(h, self, other) ==
    IF ~Code_multiplyDimsOk(h, self, other)
    THEN [err |-> "ValueError", h |-> h, result |-> 0]
    ELSE LET h1 == Code_init(h, h.mats[self].rows, h.mats[other].cols)
             result == Len(h1.mats)
         IN [err |-> NoError,
             h |-> Code_multiplyLoop(h1, self, other, result, 0, 0),
             result |-> result]

\* One entry line of readFile's loop: the (row, col, value) it sets, or an error
Code_parseLine(line, rows, cols) ==
    IF ~StartsWith(line, "(") \/ ~EndsWith(line, ")")
    THEN [ok |-> FALSE, row |-> 0, col |-> 0, value |-> 0]
    ELSE LET parts == Split(SubSeq(line, 2, Len(line) - 1), ",")
         IN IF Len(parts) # 3
            THEN [ok |-> FALSE, row |-> 0, col |-> 0, value |-> 0]
            ELSE LET row == ParseInt(parts[1])
                     col == ParseInt(parts[2])
                     value == ParseInt(parts[3])
                 IN IF ~row.ok \/ ~col.ok \/ ~value.ok
                    THEN [ok |-> FALSE, row |-> 0, col |-> 0, value |-> 0]
                    ELSE IF row.val >= rows \/ col.val >= cols
                    THEN [ok |-> FALSE, row |-> 0, col |-> 0, value |-> 0]
                    ELSE [ok |-> TRUE, row |-> row.val, col |-> col.val,
                          value |-> value.val]

RECURSIVE Code_readEntries(_, _, _)
\* for line in lines[2:]: ... matrix.setElement(row, col, value)
Code_readEntries(h, matrix, lines) ==
    IF lines = <<>> THEN [err |-> NoError, h |-> h]
    ELSE LET e == Code_parseLine(Head(lines), h.mats[matrix].rows, h.mats[matrix].cols)
         IN IF ~e.ok THEN [err |-> "ValueError", h |-> h]
            ELSE Code_readEntries(Code_setElement(h, matrix, e.row, e.col, e.value),
                                  matrix, Tail(lines))

\* SparseMatrix.readFile(filePath), text being the content of the file; any
\* exception leaves as ValueError("Input file has wrong format")
Code_readFile(h, text) ==
    LET lines == NonBlank(FileLines(text))
        failed == [err |-> "ValueError", h |-> h, result |-> 0]
    IN IF Len(lines) < 2 THEN failed
       ELSE LET rows_line == Split(lines[1], "=")
                cols_line == Split(lines[2], "=")
            IN IF Len(rows_line) # 2 \/ Len(cols_line) # 2 THEN failed
               ELSE LET rows == ParseInt(rows_line[2])
                        cols == ParseInt(cols_line[2])
                    IN IF ~rows.ok \/ ~cols.ok THEN failed
                       ELSE LET h1 == Code_init(h, rows.val, cols.val)
                                matrix == Len(h1.mats)
                                r == Code_readEntries(h1, matrix,
                                                      SubSeq(lines, 3, Len(lines)))
                            IN IF r.err # NoError THEN failed
                               ELSE [err |-> NoError, h |-> r.h, result |-> matrix]

\* FormatEntry with the column written before the row
FormatEntrySwapped(row, col, value) ==
    <<"(">> \o Dec(col) \o <<",", " ">> \o Dec(row) \o <<",", " ">> \o Dec(value)
    \o <<")", "\n">>

\* f"({row}, {col}, {value})\n"
FormatEntry(row, col, value) ==
    <<"(">> \o Dec(row) \o <<",", " ">> \o Dec(col) \o <<",", " ">> \o Dec(value)
    \o <<")", "\n">>

\* f"rows={rows}\n" and f"cols={cols}\n"
FormatHeader(rows, cols) ==
    <<"r", "o", "w", "s", "=">> \o Dec(rows) \o <<"\n">>
    \o <<"c", "o", "l", "s", "=">> \o Dec(cols) \o <<"\n">>

RECURSIVE FormatEntries(_, _)
\* for (row, col), value in self.data.items(): file.write(...)
FormatEntries(d, order) ==
    IF order = <<>> THEN <<>>
    ELSE FormatEntry(Head(order)[1], Head(order)[2], d[Head(order)])
         \o FormatEntries(d, Tail(order))

\* self.writeToFile(outputPath): the text written
Code_writeToFile(h, self, order) ==
    FormatHeader(h.mats[self].rows, h.mats[self].cols)
    \o FormatEntries(DataOf(h, self), order)

(***************************************************************************)
(* src/integral-file/sparse_matrix.py                                      *)
(***************************************************************************)
\* SparseMatrix(rows, cols, data), data being dict d of the heap (0: None):
\* self.data = data if data else {}
Integral_init(h, rows, cols, d) ==
    IF d # 0 /\ h.dicts[d] # EmptyDict
    THEN [mats |-> Append(h.mats, [rows |-> rows, cols |-> cols, data |-> d]),
          dicts |-> h.dicts]
    ELSE [mats |-> Append(h.mats, [rows |-> rows, cols |-> cols,
                                   data |-> Len(h.dicts) + 1]),
          dicts |-> Append(h.dicts, EmptyDict)]

Integral_inBounds(h, self, row, col) ==
    ~(row < 0 \/ row >= h.mats[self].rows \/ col < 0 \/ col >= h.mats[self].cols)

Integral_getElement(h, self, row, col) ==
    IF ~Integral_inBounds(h, self, row, col)
    THEN [err |-> "IndexError", value |-> 0]
    ELSE [err |-> NoError, value |-> DictGet(DataOf(h, self), <<row, col>>, 0)]

Integral_setElement(h, self, row, col, value) ==
    LET d == h.mats[self].data
    IN IF ~Integral_inBounds(h, self, row, col)
       THEN [err |-> "IndexError", h |-> h]
       ELSE IF value # 0
       THEN [err |-> NoError, h |-> WithDict(h, d, DictSet(h.dicts[d], <<row, col>>, value))]
       ELSE IF <<row, col>> \in DOMAIN h.dicts[d]
       THEN [err |-> NoError, h |-> WithDict(h, d, DictDel(h.dicts[d], <<row, col>>))]
       ELSE [err |-> NoError, h |-> h]

\* Integral_copy without the copy: result_data = self.data
Integral_copyAlias(h, self) == [h |-> h, rd |-> h.mats[self].data]

\* result_data = self.data.copy(): the heap with the copy, and the copy (rd)
Integral_copy(h, self) ==
    [h |-> [h EXCEPT !.dicts = Append(h.dicts, DataOf(h, self))],
     rd |-> Len(h.dicts) + 1]

Integral_addDimsOk(h, self, other) ==
    ~(h.mats[self].rows # h.mats[other].rows \/ h.mats[self].cols # h.mats[other].cols)

\* one turn of add's loop over other.data.items(), on dict rd
Integral_addStep(h, rd, key, value) ==
    IF key \in DOMAIN h.dicts[rd]
    THEN LET sum == h.dicts[rd][key] + value
         IN IF sum = 0 THEN WithDict(h, rd, DictDel(h.dicts[rd], key))
            ELSE WithDict(h, rd, DictSet(h.dicts[rd], key, sum))
    ELSE WithDict(h, rd, DictSet(h.dicts[rd], key, value))

RECURSIVE Integral_addLoop(_, _, _, _)
Integral_addLoop(h, other, rd, order) ==
    IF order = <<>> THEN h
    ELSE Integral_addLoop(Integral_addStep(h, rd, Head(order), DataOf(h, other)[Head(order)]),
                          other, rd, Tail(order))

Integral_add(h, self, other, order) ==
    IF ~Integral_addDimsOk(h, self, other)
    THEN [err |-> "ValueError", h |-> h, result |-> 0]
    ELSE LET c == Integral_copy(h, self)
             rd == c.rd
             h2 == Integral_addLoop(c.h, other, rd, order)
             h3 == Integral_init(h2, h.mats[self].rows, h.mats[self].cols, rd)
         IN [err |-> NoError, h |-> h3, result |-> Len(h3.mats)]

\* Integral_subtractStep storing value, not -value, for a key that self lacks
Integral_subtractStepAsAdd(h, rd, key, value) ==
    IF key \in DOMAIN h.dicts[rd]
    THEN LET diff == h.dicts[rd][key] - value
         IN IF diff = 0 THEN WithDict(h, rd, DictDel(h.dicts[rd], key))
            ELSE WithDict(h, rd, DictSet(h.dicts[rd], key, diff))
    ELSE WithDict(h, rd, DictSet(h.dicts[rd], key, value))

\* one turn of subtract's loop over other.data.items(), on dict rd
Integral_subtractStep(h, rd, key, value) ==
    IF key \in DOMAIN h.dicts[rd]
    THEN LET diff == h.dicts[rd][key] - value
         IN IF diff = 0 THEN WithDict(h, rd, DictDel(h.dicts[rd], key))
            ELSE WithDict(h, rd, DictSet(h.dicts[rd], key, diff))
    ELSE WithDict(h, rd, DictSet(h.dicts[rd], key, -value))

RECURSIVE Integral_subtractLoop(_, _, _, _)
Integral_subtractLoop(h, other, rd, order) ==
    IF order = <<>> THEN h
    ELSE Integral_subtractLoop(
             Integral_subtractStep(h, rd, Head(order), DataOf(h, other)[Head(order)]),
             other, rd, Tail(order))

Integral_subtract(h, self, other, order) ==
    IF ~Integral_addDimsOk(h, self, other)
    THEN [err |-> "ValueError", h |-> h, result |-> 0]
    ELSE LET c == Integral_copy(h, self)
             rd == c.rd
             h2 == Integral_subtractLoop(c.h, other, rd, order)
             h3 == Integral_init(h2, h.mats[self].rows, h.mats[self].cols, rd)
         IN [err |-> NoError, h |-> h3, result |-> Len(h3.mats)]

\* Integral_multiplyDimsOk comparing the two row counts
Integral_multiplyDimsOkRows(h, self, other) == ~(h.mats[self].rows # h.mats[other].rows)

Integral_multiplyDimsOk(h, self, other) == ~(h.mats[self].cols # h.mats[other].rows)

\* Integral_multiplyStep without the deletion of a sum that reached 0
Integral_multiplyStepKeepsZero(h, rd, result_key, val1, val2) ==
    WithDict(h, rd, DictSet(h.dicts[rd], result_key,
                            DictGet(h.dicts[rd], result_key, 0) + val1 * val2))

\* result_data[result_key] = result_data.get(result_key, 0) + val1 * val2, and
\* del result_data[result_key] if that is 0
Integral_multiplyStep(h, rd, result_key, val1, val2) ==
    LET new == DictGet(h.dicts[rd], result_key, 0) + val1 * val2
    IN IF new = 0 THEN WithDict(h, rd, DictDel(h.dicts[rd], result_key))
       ELSE WithDict(h, rd, DictSet(h.dicts[rd], result_key, new))

RECURSIVE Integral_multiplyInner(_, _, _, _, _, _, _)
\* for j in range(j, result_cols): val2 = other.getElement(k, j); ...
Integral_multiplyInner(h, other, rd, i, k, val1, j) ==
    IF j >= h.mats[other].cols THEN [err |-> NoError, h |-> h]
    ELSE LET val2 == Integral_getElement(h, other, k, j)
         IN IF val2.err # NoError THEN [err |-> val2.err, h |-> h]
            ELSE Integral_multiplyInner(
                     IF val2.value # 0
                     THEN Integral_multiplyStep(h, rd, <<i, j>>, val1, val2.value)
                     ELSE h,
                     other, rd, i, k, val1, j + 1)

RECURSIVE Integral_multiplyLoop(_, _, _, _, _)
\* for (i, k), val1 in self.data.items(): ...
Integral_multiplyLoop(h, self, other, rd, order) ==
    IF order = <<>> THEN [err |-> NoError, h |-> h]
    ELSE LET key == Head(order)
             r == Integral_multiplyInner(h, other, rd, key[1], key[2],
                                         DataOf(h, self)[key], 0)
         IN IF r.err # NoError THEN r
            ELSE Integral_multiplyLoop(r.h, self, other, rd, Tail(order))

Integral_multiply(h, self, other, order) ==
    IF ~Integral_multiplyDimsOk(h, self, other)
    THEN [err |-> "ValueError", h |-> h, result |-> 0]
    ELSE LET h1 == [h EXCEPT !.dicts = Append(h.dicts, EmptyDict)]
             rd == Len(h1.dicts)
             r == Integral_multiplyLoop(h1, self, other, rd, order)
         IN IF r.err # NoError THEN [err |-> r.err, h |-> h, result |-> 0]
            ELSE LET h3 == Integral_init(r.h, h.mats[self].rows, h.mats[other].cols, rd)
                 IN [err |-> NoError, h |-> h3, result |-> Len(h3.mats)]

\* One entry line of load_from_file's loop: the key and value it stores
Integral_parseLine(line) ==
    IF ~StartsWith(line, "(") \/ ~EndsWith(line, ")")
    THEN [ok |-> FALSE, row |-> 0, col |-> 0, value |-> 0]
    ELSE LET entry == Split(SubSeq(line, 2, Len(line) - 1), ",")
         IN IF Len(entry) # 3
            THEN [ok |-> FALSE, row |-> 0, col |-> 0, value |-> 0]
            ELSE LET row == Strip(entry[1])
                     col == Strip(entry[2])
                     value == Strip(entry[3])
                 IN IF ~IsDigit(row) \/ ~IsDigit(col)
                    THEN [ok |-> FALSE, row |-> 0, col |-> 0, value |-> 0]
                    ELSE IF ~IsDigit(LStripChar(value, "-"))
                    THEN [ok |-> FALSE, row |-> 0, col |-> 0, value |-> 0]
                    ELSE IF ~ParseInt(value).ok
                    THEN [ok |-> FALSE, row |-> 0, col |-> 0, value |-> 0]
                    ELSE [ok |-> TRUE, row |-> ParseInt(row).val,
                          col |-> ParseInt(col).val, value |-> ParseInt(value).val]

RECURSIVE Integral_loadEntries(_, _, _)
\* for line in lines[2:]: ... data[(int(row), int(col))] = int(value)
Integral_loadEntries(h, data, lines) ==
    IF lines = <<>> THEN [err |-> NoError, h |-> h]
    ELSE LET e == Integral_parseLine(Head(lines))
         IN IF ~e.ok THEN [err |-> "ValueError", h |-> h]
            ELSE Integral_loadEntries(
                     WithDict(h, data, DictSet(h.dicts[data], <<e.row, e.col>>, e.value)),
                     data, Tail(lines))

\* SparseMatrix.load_from_file(file_path), text being the content of the file;
\* any exception leaves as ValueError("Input file has wrong format: ...")
Integral_load_from_file(h, text) ==
    LET lines == NonBlank(FileLines(text))
        failed == [err |-> "ValueError", h |-> h, result |-> 0]
    IN IF Len(lines) < 2 THEN failed
       ELSE LET rows_line == Split(lines[1], "=")
                cols_line == Split(lines[2], "=")
            IN IF Len(rows_line) < 2 \/ Len(cols_line) < 2 THEN failed
               ELSE LET rows == ParseInt(Strip(rows_line[2]))
                        cols == ParseInt(Strip(cols_line[2]))
                    IN IF ~rows.ok \/ ~cols.ok THEN failed
                       ELSE LET h1 == [h EXCEPT !.dicts = Append(h.dicts, EmptyDict)]
                                data == Len(h1.dicts)
                                r == Integral_loadEntries(h1, data,
                                                          SubSeq(lines, 3, Len(lines)))
                            IN IF r.err # NoError THEN failed
                               ELSE LET h3 == Integral_init(r.h, rows.val, cols.val, data)
                                    IN [err |-> NoError, h |-> h3, result |-> Len(h3.mats)]

\* self.save_to_file(file_path): the text written
Integral_save_to_file(h, self, order) ==
    FormatHeader(h.mats[self].rows, h.mats[self].cols)
    \o FormatEntries(DataOf(h, self), order)

(***************************************************************************)
(* The state: which of the two programs runs, its heap, how each matrix    *)
(* object came to be, the number of getElement / setElement calls made,    *)
(* the file last written, and the record of the last call.                 *)
(***************************************************************************)
VARIABLES impl, heap, origin, accesses, file, last

vars == <<impl, heap, origin, accesses, file, last>>

\* the value of matrix object self: rows, cols and entries
MatVal(h, self) == [rows |-> h.mats[self].rows, cols |-> h.mats[self].cols,
                    data |-> DataOf(h, self)]

Objs == 1..Len(heap.mats)

Dims == 1..MaxDim

\* coordinates a caller passes to getElement / setElement: inside, past the
\* last column, before the first row
ProbeCoords == {<<0, 0>>, <<0, MaxDim>>, <<-1, 0>>}

ProbeValues == {0, 1}

\* entry lines of an input file, with what they spell
EntryLines ==
    {[row |-> 0, col |-> 0, value |-> 1, fields |-> 3, text |-> FormatEntry(0, 0, 1)],
     [row |-> 0, col |-> 0, value |-> 0, fields |-> 3, text |-> FormatEntry(0, 0, 0)],
     [row |-> 0, col |-> 1, value |-> -1, fields |-> 3, text |-> FormatEntry(0, 1, -1)],
     [row |-> -1, col |-> 0, value |-> 1, fields |-> 3, text |-> FormatEntry(-1, 0, 1)],
     [row |-> 0, col |-> 0, value |-> 1, fields |-> 4,
      text |-> <<"(", "0", ",", "0", ",", "1", ",", "2", ")", "\n">>],
     [row |-> 0, col |-> 0, value |-> 0, fields |-> 0, text |-> <<" ", "\n">>]}

LineSeqs == UNION {[1..n -> EntryLines] : n \in 0..MaxLines}

RECURSIVE JoinLines(_)
JoinLines(ls) == IF ls = <<>> THEN <<>> ELSE Head(ls).text \o JoinLines(Tail(ls))

\* an input file: a header declaring rows and cols, then the entry lines
InputText(in) == FormatHeader(in.rows, in.cols) \o JoinLines(in.lines)

Inputs == [rows : Dims, cols : Dims, lines : LineSeqs]

\* what the call record keeps of an input file: the declared shape, whether
\* a three-field entry line lies outside it, whether a line is malformed
InputDigest(in) ==
    [rows |-> in.rows, cols |-> in.cols,
     oob |-> \E i \in 1..Len(in.lines) :
                /\ in.lines[i].fields = 3
                /\ \/ in.lines[i].row < 0 \/ in.lines[i].row >= in.rows
                   \/ in.lines[i].col < 0 \/ in.lines[i].col >= in.cols,
     zero |-> \E i \in 1..Len(in.lines) :
                 in.lines[i].fields = 3 /\ in.lines[i].value = 0,
     malformed |-> \E i \in 1..Len(in.lines) : in.lines[i].fields = 4]

NoInput == [rows |-> 0, cols |-> 0, oob |-> FALSE, zero |-> FALSE, malformed |-> FALSE]

NoFile == [text |-> <<>>, written |-> FALSE,
           mat |-> [rows |-> 0, cols |-> 0, data |-> EmptyDict]]

\* the record of a call: what was called on what, the heap before it, and
\* what it raised (err) or returned (result: a matrix object, ret: a value)
Call(op, self, other, row, col, value, in, err, result, ret) ==
    [op |-> op, self |-> self, other |-> other, row |-> row, col |-> col,
     value |-> value, in |-> in, pre |-> heap, err |-> err, result |-> result,
     ret |-> ret]

NoCall == [op |-> "none", self |-> 0, other |-> 0, row |-> 0, col |-> 0,
           value |-> 0, in |-> NoInput, pre |-> EmptyHeap, err |-> NoError,
           result |-> 0, ret |-> 0]

\* readFile and load_from_file are static and read nothing but the file:
\* what each returns for each input file, computed on a heap of its own
Code_parsed ==
    {[in |-> InputDigest(in), r |-> Code_readFile(EmptyHeap, InputText(in))] : in \in Inputs}

Integral_parsed ==
    {[in |-> InputDigest(in), r |-> Integral_load_from_file(EmptyHeap, InputText(in))] :
        in \in Inputs}

\* the matrix that a call on a heap of its own returned, as a new object of h
Adopt(h, r) ==
    IF r.err # NoError THEN h
    ELSE [mats |-> Append(h.mats, [rows |-> r.h.mats[r.result].rows,
                                   cols |-> r.h.mats[r.result].cols,
                                   data |-> Len(h.dicts) + 1]),
          dicts |-> Append(h.dicts, DataOf(r.h, r.result))]

\* origin of the object a call returned, if it returned one
Born(r, how) == IF r.err = NoError THEN Append(origin, how) ELSE origin

Init ==
    /\ impl \in {"code", "integral"}
    /\ heap = EmptyHeap
    /\ origin = <<>>
    /\ accesses = 0
    /\ file = NoFile
    /\ last = NoCall

\* room for an operand to be constructed or loaded: the last object is left
\* to an operator's result
CanLoad == Len(heap.mats) + 1 < MaxObjs

CanAlloc == Len(heap.mats) < MaxObjs

CanAccess == accesses < MaxAccess

(******************************* code **************************************)
CallCode_init ==
    /\ impl = "code" /\ CanLoad
    /\ \E rows \in Dims, cols \in Dims :
          /\ heap' = Code_init(heap, rows, cols)
          /\ last' = Call("init", 0, 0, rows, cols, 0, NoInput, NoError,
                          Len(heap.mats) + 1, 0)
    /\ origin' = Append(origin, "init")
    /\ UNCHANGED <<impl, accesses, file>>

CallCode_readFile ==
    /\ impl = "code" /\ CanLoad
    /\ \E p \in Code_parsed :
          /\ heap' = Adopt(heap, p.r)
          /\ origin' = Born(p.r, "parse")
          /\ last' = Call("parse", 0, 0, 0, 0, 0, p.in, p.r.err,
                          IF p.r.err = NoError THEN Len(heap.mats) + 1 ELSE 0, 0)
    /\ UNCHANGED <<impl, accesses, file>>

\* readFile on the file that writeToFile wrote
CallCode_readBack ==
    /\ impl = "code" /\ CanAlloc /\ file.written
    /\ LET r == Code_readFile(heap, file.text)
       IN /\ heap' = r.h
          /\ origin' = Born(r, "parse")
          /\ last' = Call("readback", 0, 0, 0, 0, 0, NoInput, r.err, r.result, 0)
    /\ UNCHANGED <<impl, accesses, file>>

CallCode_getElement ==
    /\ impl = "code" /\ CanAccess
    /\ \E self \in Objs, pos \in ProbeCoords :
          last' = Call("get", self, 0, pos[1], pos[2], 0, NoInput, NoError, 0,
                       Code_getElement(heap, self, pos[1], pos[2]))
    /\ accesses' = accesses + 1
    /\ UNCHANGED <<impl, heap, origin, file>>

CallCode_setElement ==
    /\ impl = "code" /\ CanAccess
    /\ \E self \in Objs, pos \in ProbeCoords, value \in ProbeValues :
          /\ heap' = Code_setElement(heap, self, pos[1], pos[2], value)
          /\ origin' = [origin EXCEPT ![self] = "set"]
          /\ last' = Call("set", self, 0, pos[1], pos[2], value, NoInput, NoError, 0, 0)
    /\ accesses' = accesses + 1
    /\ UNCHANGED <<impl, file>>

\* self.add(other) called on objects self and other
CallCode_addOf(self, other) ==
    /\ impl = "code" /\ CanAlloc
    /\ \E r \in Code_add(heap, self, other) :
          /\ heap' = r.h
          /\ origin' = Born(r, "result")
          /\ last' = Call("add", self, other, 0, 0, 0, NoInput, r.err, r.result, 0)
    /\ UNCHANGED <<impl, accesses, file>>

CallCode_add == \E self \in Objs, other \in Objs : CallCode_addOf(self, other)

\* self.subtract(other) called on objects self and other
CallCode_subtractOf(self, other) ==
    /\ impl = "code" /\ CanAlloc
    /\ \E r \in Code_subtract(heap, self, other) :
          /\ heap' = r.h
          /\ origin' = Born(r, "result")
          /\ last' = Call("subtract", self, other, 0, 0, 0, NoInput, r.err, r.result, 0)
    /\ UNCHANGED <<impl, accesses, file>>

CallCode_subtract == \E self \in Objs, other \in Objs : CallCode_subtractOf(self, other)

\* self.multiply(other) called on objects self and other
CallCode_multiplyOf(self, other) ==
    /\ impl = "code" /\ CanAlloc
    /\ LET r == Code_multiply(heap, self, other)
       IN /\ heap' = r.h
          /\ origin' = Born(r, "result")
          /\ last' = Call("multiply", self, other, 0, 0, 0, NoInput, r.err, r.result, 0)
    /\ UNCHANGED <<impl, accesses, file>>

CallCode_multiply == \E self \in Objs, other \in Objs : CallCode_multiplyOf(self, other)

CallCode_writeToFile ==
    /\ impl = "code"
    /\ \E self \in Objs :
       \E order \in Orders(DOMAIN DataOf(heap, self)) :
          /\ file' = [text |-> Code_writeToFile(heap, self, order), written |-> TRUE,
                      mat |-> MatVal(heap, self)]
          /\ last' = Call("write", self, 0, 0, 0, 0, NoInput, NoError, 0, 0)
    /\ UNCHANGED <<impl, heap, origin, accesses>>

(***************************** integral ************************************)
CallIntegral_init ==
    /\ impl = "integral" /\ CanLoad
    /\ \E rows \in Dims, cols \in Dims :
          /\ heap' = Integral_init(heap, rows, cols, 0)
          /\ last' = Call("init", 0, 0, rows, cols, 0, NoInput, NoError,
                          Len(heap.mats) + 1, 0)
    /\ origin' = Append(origin, "init")
    /\ UNCHANGED <<impl, accesses, file>>

CallIntegral_load_from_file ==
    /\ impl = "integral" /\ CanLoad
    /\ \E p \in Integral_parsed :
          /\ heap' = Adopt(heap, p.r)
          /\ origin' = Born(p.r, "parse")
          /\ last' = Call("parse", 0, 0, 0, 0, 0, p.in, p.r.err,
                          IF p.r.err = NoError THEN Len(heap.mats) + 1 ELSE 0, 0)
    /\ UNCHANGED <<impl, accesses, file>>

\* load_from_file on the file that save_to_file wrote
CallIntegral_readBack ==
    /\ impl = "integral" /\ CanAlloc /\ file.written
    /\ LET r == Integral_load_from_file(heap, file.text)
       IN /\ heap' = r.h
          /\ origin' = Born(r, "parse")
          /\ last' = Call("readback", 0, 0, 0, 0, 0, NoInput, r.err, r.result, 0)
    /\ UNCHANGED <<impl, accesses, file>>

CallIntegral_getElement ==
    /\ impl = "integral" /\ CanAccess
    /\ \E self \in Objs, pos \in ProbeCoords :
          LET r == Integral_getElement(heap, self, pos[1], pos[2])
          IN last' = Call("get", self, 0, pos[1], pos[2], 0, NoInput, r.err, 0, r.value)
    /\ accesses' = accesses + 1
    /\ UNCHANGED <<impl, heap, origin, file>>

CallIntegral_setElement ==
    /\ impl = "integral" /\ CanAccess
    /\ \E self \in Objs, pos \in ProbeCoords, value \in ProbeValues :
          LET r == Integral_setElement(heap, self, pos[1], pos[2], value)
          IN /\ heap' = r.h
             /\ origin' = IF r.err = NoError THEN [origin EXCEPT ![self] = "set"]
                          ELSE origin
             /\ last' = Call("set", self, 0, pos[1], pos[2], value, NoInput, r.err, 0, 0)
    /\ accesses' = accesses + 1
    /\ UNCHANGED <<impl, file>>

\* self.add(other) called on objects self and other
CallIntegral_addOf(self, other) ==
    /\ impl = "integral" /\ CanAlloc
    /\ \E r \in {Integral_add(heap, self, other, order) :
                    order \in Orders(DOMAIN DataOf(heap, other))} :
          /\ heap' = r.h
          /\ origin' = Born(r, "result")
          /\ last' = Call("add", self, other, 0, 0, 0, NoInput, r.err, r.result, 0)
    /\ UNCHANGED <<impl, accesses, file>>

CallIntegral_add == \E self \in Objs, other \in Objs : CallIntegral_addOf(self, other)

\* self.subtract(other) called on objects self and other
CallIntegral_subtractOf(self, other) ==
    /\ impl = "integral" /\ CanAlloc
    /\ \E r \in {Integral_subtract(heap, self, other, order) :
                    order \in Orders(DOMAIN DataOf(heap, other))} :
          /\ heap' = r.h
          /\ origin' = Born(r, "result")
          /\ last' = Call("subtract", self, other, 0, 0, 0, NoInput, r.err, r.result, 0)
    /\ UNCHANGED <<impl, accesses, file>>

CallIntegral_subtract == \E self \in Objs, other \in Objs : CallIntegral_subtractOf(self, other)

\* self.multiply(other) called on objects self and other
CallIntegral_multiplyOf(self, other) ==
    /\ impl = "integral" /\ CanAlloc
    /\ \E r \in {Integral_multiply(heap, self, other, order) :
                    order \in Orders(DOMAIN DataOf(heap, self))} :
          /\ heap' = r.h
          /\ origin' = Born(r, "result")
          /\ last' = Call("multiply", self, other, 0, 0, 0, NoInput, r.err, r.result, 0)
    /\ UNCHANGED <<impl, accesses, file>>

CallIntegral_multiply == \E self \in Objs, other \in Objs : CallIntegral_multiplyOf(self, other)

CallIntegral_save_to_file ==
    /\ impl = "integral"
    /\ \E self \in Objs :
       \E order \in Orders(DOMAIN DataOf(heap, self)) :
          /\ file' = [text |-> Integral_save_to_file(heap, self, order), written |-> TRUE,
                      mat |-> MatVal(heap, self)]
          /\ last' = Call("write", self, 0, 0, 0, 0, NoInput, NoError, 0, 0)
    /\ UNCHANGED <<impl, heap, origin, accesses>>

Next ==
    \/ CallCode_init
    \/ CallCode_readFile
    \/ CallCode_getElement
    \/ CallCode_setElement
    \/ CallCode_add
    \/ CallCode_subtract
    \/ CallCode_multiply
    \/ CallIntegral_init
    \/ CallIntegral_load_from_file
    \/ CallIntegral_getElement
    \/ CallIntegral_setElement
    \/ CallIntegral_add
    \/ CallIntegral_subtract
    \/ CallIntegral_multiply

\* construction, parsing, element access and the operators of the two
\* programs, called in any order
Spec == Init /\ [][Next]_vars

(***************************************************************************)
(* The operators as functions of their operands: two matrices that keep    *)
(* the invariants of the data model are drawn, and one operator is called  *)
(* on the first and the second, or on the first and itself; the drawn      *)
(* pairs are ordered, so every ordered pair of operands is covered.        *)
(***************************************************************************)
OpShapes == {<<1, 1>>, <<1, 3>>, <<3, 1>>, <<2, 2>>}

OpValues == {-1, 1}

Cells(shape) == (0..(shape[1] - 1)) \X (0..(shape[2] - 1))

\* the matrices of a shape whose entries lie inside it and are among vals,
\* at most MaxNnz of them stored
MatricesOf(shape, cells, vals) ==
    {[rows |-> shape[1], cols |-> shape[2], data |-> d] :
        d \in UNION {[K -> vals] : K \in {K \in SUBSET cells : Cardinality(K) <= MaxNnz}}}

Operands == UNION {MatricesOf(s, Cells(s), OpValues) : s \in OpShapes}

\* a heap holding matrices A and B, each with a dict of its own
HeapOf(ms) ==
    [mats |-> [i \in 1..Len(ms) |-> [rows |-> ms[i].rows, cols |-> ms[i].cols, data |-> i]],
     dicts |-> [i \in 1..Len(ms) |-> ms[i].data]]

InitOps ==
    /\ impl \in {"code", "integral"}
    /\ \E A \in Operands, B \in Operands : heap = HeapOf(<<A, B>>)
    /\ origin = <<"set", "set">>
    /\ accesses = 0
    /\ file = NoFile
    /\ last = NoCall

\* one call, on the first operand: with the second, or with itself
NextOps ==
    \/ last.op = "none" /\ \E other \in Objs : CallCode_addOf(1, other)
    \/ last.op = "none" /\ \E other \in Objs : CallCode_subtractOf(1, other)
    \/ last.op = "none" /\ \E other \in Objs : CallCode_multiplyOf(1, other)
    \/ last.op = "none" /\ \E other \in Objs : CallIntegral_addOf(1, other)
    \/ last.op = "none" /\ \E other \in Objs : CallIntegral_subtractOf(1, other)
    \/ last.op = "none" /\ \E other \in Objs : CallIntegral_multiplyOf(1, other)

SpecOps == InitOps /\ [][NextOps]_vars

(***************************************************************************)
(* Writing a matrix and reading the file back: one matrix that keeps the   *)
(* invariants of the data model is drawn, written, and the file parsed.    *)
(***************************************************************************)
RTShapes == {<<2, 2>>, <<11, 12>>}

RTValues == {-10, -1, 7}

Corners(shape) == {0, shape[1] - 1} \X {0, shape[2] - 1}

RTOperands == UNION {MatricesOf(s, Corners(s), RTValues) : s \in RTShapes}

InitRT ==
    /\ impl \in {"code", "integral"}
    /\ \E A \in RTOperands : heap = HeapOf(<<A>>)
    /\ origin = <<"set">>
    /\ accesses = 0
    /\ file = NoFile
    /\ last = NoCall

NextRT ==
    \/ ~file.written /\ CallCode_writeToFile
    \/ last.op = "write" /\ CallCode_readBack
    \/ ~file.written /\ CallIntegral_save_to_file
    \/ last.op = "write" /\ CallIntegral_readBack

SpecRT == InitRT /\ [][NextRT]_vars

(***************************************************************************)
(* The claims.  A and B are the operands of the last call as they were     *)
(* before it, R the matrix it returned.                                    *)
(***************************************************************************)
A == MatVal(last.pre, last.self)

B == MatVal(last.pre, last.other)

R == MatVal(heap, last.result)

\* M.get(row, col) of the data model: the stored value, 0 if absent
Get(M, row, col) == IF <<row, col>> \in DOMAIN M.data THEN M.data[<<row, col>>] ELSE 0

RECURSIVE Dot(_, _, _, _, _)
\* sum over k < n of M.get(i, k) * N.get(k, j)
Dot(M, N, i, j, n) ==
    IF n = 0 THEN 0
    ELSE Dot(M, N, i, j, n - 1) + Get(M, i, n - 1) * Get(N, n - 1, j)

\* the entry set of the matrix product
ProductEntries(M, N) ==
    [p \in {q \in (0..(M.rows - 1)) \X (0..(N.cols - 1)) : Dot(M, N, q[1], q[2], M.cols) # 0}
        |-> Dot(M, N, p[1], p[2], M.cols)]

\* the entry set of M + sign * N
SumEntries(M, N, sign) ==
    [p \in {q \in (DOMAIN M.data) \cup (DOMAIN N.data) :
               Get(M, q[1], q[2]) + sign * Get(N, q[1], q[2]) # 0}
        |-> Get(M, p[1], p[2]) + sign * Get(N, p[1], p[2])]

InShape(M, row, col) == 0 <= row /\ row < M.rows /\ 0 <= col /\ col < M.cols

IsOperator == last.op \in {"add", "subtract", "multiply"}

Mismatch ==
    \/ last.op \in {"add", "subtract"} /\ (A.rows # B.rows \/ A.cols # B.cols)
    \/ last.op = "multiply" /\ A.cols # B.rows

\* C1: no matrix that construction, parsing, setElement or an operator
\* produced holds a stored entry of value 0.
C1_ZeroElision ==
    \A self \in Objs : \A key \in DOMAIN DataOf(heap, self) : DataOf(heap, self)[key] # 0

\* C2: every stored key (r, c) of every matrix that construction, parsing,
\* setElement or an operator produced has 0 <= r < rows and 0 <= c < cols.
C2_KeysInBounds ==
    \A self \in Objs : \A key \in DOMAIN DataOf(heap, self) :
        InShape(MatVal(heap, self), key[1], key[2])

\* C3: multiply(A, B) with A.cols = B.rows returns a matrix of shape
\* (A.rows, B.cols) whose entries are exactly the non-zero sums over k of
\* A.get(i, k) * B.get(k, j), whatever the order in which A's entries are
\* visited; the sparse and the dense multiply return the same matrix.
C3_MultiplyCorrect ==
    (last.op = "multiply" /\ A.cols = B.rows) =>
        /\ last.err = NoError
        /\ last.result # 0
        /\ R = [rows |-> A.rows, cols |-> B.cols, data |-> ProductEntries(A, B)]
        /\ LET dense == Code_multiply(last.pre, last.self, last.other)
           IN \A order \in Orders(DOMAIN A.data) :
                 LET sparse == Integral_multiply(last.pre, last.self, last.other, order)
                 IN /\ sparse.err = NoError /\ dense.err = NoError
                    /\ MatVal(sparse.h, sparse.result) = MatVal(dense.h, dense.result)

\* the sparse multiply has summed 1 * 1, -1 * 1 and 1 * 1 into cell (0, 0):
\* visited in the order k = 0, 1, 2 the cell is deleted at 0 and created again
C3_Witness ==
    /\ impl = "integral" /\ last.op = "multiply" /\ last.err = NoError
    /\ A = [rows |-> 1, cols |-> 3,
            data |-> (<<0, 0>> :> 1) @@ (<<0, 1>> :> -1) @@ (<<0, 2>> :> 1)]
    /\ B = [rows |-> 3, cols |-> 1,
            data |-> (<<0, 0>> :> 1) @@ (<<1, 0>> :> 1) @@ (<<2, 0>> :> 1)]
    /\ R.data = (<<0, 0>> :> 1)

\* C4: add(A, B) and subtract(A, B) of matrices of equal shape return a
\* matrix of that shape that stores A.get + B.get (A.get - B.get) at every
\* coordinate where that is not 0, and nothing else.
C4_AddSubtractCorrect ==
    (last.op \in {"add", "subtract"} /\ A.rows = B.rows /\ A.cols = B.cols) =>
        /\ last.err = NoError
        /\ last.result # 0
        /\ R = [rows |-> A.rows, cols |-> A.cols,
                data |-> SumEntries(A, B, IF last.op = "add" THEN 1 ELSE -1)]

\* a subtraction in which one coordinate cancels, one is stored by B alone
\* and one by A alone
C4_Witness ==
    /\ last.op = "subtract" /\ last.err = NoError
    /\ \E p \in DOMAIN A.data : p \in DOMAIN B.data /\ A.data[p] = B.data[p]
                                /\ p \notin DOMAIN R.data
    /\ \E p \in DOMAIN B.data : p \notin DOMAIN A.data /\ R.data[p] = -B.data[p]
    /\ \E p \in DOMAIN A.data : p \notin DOMAIN B.data /\ R.data[p] = A.data[p]

\* C5: parsing the text that writeToFile / save_to_file wrote for a matrix
\* succeeds and returns a matrix with the same rows, cols and entries.
C5_RoundTrip ==
    last.op = "readback" =>
        /\ last.err = NoError
        /\ last.result # 0
        /\ R = file.mat

\* a file with a two-digit row and column and a negative two-digit value
\* has been read back
C5_Witness ==
    /\ last.op = "readback"
    /\ <<10, 11>> \in DOMAIN file.mat.data
    /\ file.mat.data[<<10, 11>>] = -10
    /\ Cardinality(DOMAIN file.mat.data) = MaxNnz

\* C6: add and subtract of matrices of different shape, and multiply with
\* A.cols # B.rows, raise the dimension error, return no matrix and leave
\* the heap, so both operands, as it was.
C6_DimensionMismatchRejected ==
    Mismatch =>
        /\ last.err = "ValueError"
        /\ last.result = 0
        /\ heap = last.pre

\* a multiply of two non-empty matrices with A.cols # B.rows was rejected
C6_Witness ==
    /\ last.op = "multiply" /\ Mismatch
    /\ A.data # EmptyDict /\ B.data # EmptyDict
    /\ A.rows = B.rows

\* C7: after a successful add, subtract or multiply every matrix that
\* existed before the call, the operands among them, has the rows, cols and
\* entries it had, and the result is a new object with a dict of its own.
C7_OperandsNotMutated ==
    (IsOperator /\ last.err = NoError) =>
        /\ Len(heap.mats) = Len(last.pre.mats) + 1
        /\ last.result = Len(heap.mats)
        /\ \A self \in 1..Len(last.pre.mats) :
              /\ heap.mats[self] = last.pre.mats[self]
              /\ MatVal(heap, self) = MatVal(last.pre, self)
              /\ heap.mats[self].data # heap.mats[last.result].data

\* a matrix has been added to itself, and the sum is not empty
C7_Witness ==
    /\ last.op = "add" /\ last.err = NoError
    /\ last.self = last.other
    /\ Cardinality(DOMAIN R.data) = MaxNnz

\* C8: getElement and setElement with a coordinate outside the shape raise
\* IndexError; getElement returns no value, setElement changes nothing.
C8_ValidatedAccess ==
    (last.op \in {"get", "set"} /\ ~InShape(A, last.row, last.col)) =>
        /\ last.err = "IndexError"
        /\ heap = last.pre

\* C9: parsing a file with an entry line whose row or column is negative
\* or not below the declared rows / cols fails and returns no matrix.
C9_ParseRejectsOutOfBounds ==
    (last.op = "parse" /\ last.in.oob) =>
        /\ last.err = "ValueError"
        /\ last.result = 0
        /\ heap = last.pre

\* C10: multiply of two matrices that parsing returned, with
\* A.cols = B.rows, returns a matrix: it raises nothing.
C10_MultiplyTotal ==
    (/\ last.op = "multiply"
     /\ origin[last.self] = "parse" /\ origin[last.other] = "parse"
     /\ A.cols = B.rows) =>
        /\ last.err = NoError
        /\ last.result # 0

====
